---------------------------- MODULE Spec2Model ----------------------------
(***************************************************************************)
(* A model of PrintQR (pqr): the caption font-size search and the caption  *)
(* composition of qr.py, the filename generation of helpers.py with the    *)
(* string transformations of shared.py, the config-file and template       *)
(* initialisation of app.py and the generate commands of cli.py with the   *)
(* settings registry of settings.py.                                       *)
(*                                                                         *)
(* The module holds several specifications over one set of variables; each *)
(* one drives one part of the program and leaves the other parts' variables*)
(* at their idle values.                                                   *)
(***************************************************************************)
EXTENDS Integers, Sequences, FiniteSets, TLC

VARIABLES
    \* ---- qr.py: _add_caption_to_image / _get_font_size
    caption,        \* CONFIG.cfg.caption: font_size_max, padding_top, padding_bottom, line_spacing
    qr_code,        \* CONFIG.cfg.qr_code: module_size, border
    image,          \* the QR image handed to _add_caption_to_image: width, height
    fpc,            \* position inside _add_caption_to_image
    font_size,      \* the loop variable of _get_font_size
    measured,       \* font size -> <<width of line one, width of line two>>, as getbbox returned them
    font_result,    \* what _get_font_size returned (0: nothing yet)
    font_error,     \* the exception that left _get_font_size ("none": no exception)
    composed,       \* the image _add_caption_to_image returned
    \* ---- helpers.py: generate_basename
    filename_template,          \* the template: a sequence of characters and {filament-name} fields
    filament_name,              \* the value of the filament-name setting
    filename_transformations,   \* the requested StringTransformations, in order
    npc,                        \* position: "start", then "done"
    basename,                   \* what generate_basename returned
    \* ---- shared.py: StringTransformation.apply
    apply_string,               \* the string given to apply
    transformation,             \* the StringTransformation applied ("none": not yet)
    transformed,                \* what apply returned
    \* ---- app.py: save_config_file ('init app', 'init config')
    files,          \* destination -> [exists, content]: pqr.toml in ~/.pqr and in the current directory,
                    \* and ("template") print-settings.toml in the current directory
    user_dir,       \* whether ~/.pqr exists
    init_runs,      \* how many init commands have run
    init_last,      \* the last init command: destination, force, and the file as it found it
    \* ---- cli.py: the generate commands (prompts, args, template, revise)
    cmd,            \* the command that was run
    flags,          \* its options as given: ignore_defaults, encoding, with_units, add_date ("None": not given)
    user_config,    \* the user's pqr.toml: options and the print-settings section
    input,          \* the command's own input: args values, or the template file
    history,        \* history.toml in the user data directory (NoText: no file)
    cpc,            \* position: "start", "args_done", "preview", "saved", "exited", "crashed"
    args,           \* the namespace process_shared_args returned
    settings,       \* PRINT_SETTINGS: path -> _value
    shadow,         \* PRINT_SETTINGS of the same run with an empty print-settings section in pqr.toml
    stamped,        \* whether stamp_date was called
    preview,        \* the payload shown by the last preview
    revisions,      \* the Revise passes taken
    out_image,      \* the payload encoded in the saved image (NoText: no image)
    out_record,     \* the TOML record written next to the image (NoText: no record)
    exit_code,      \* the argument of sys.exit (0: none)
    error           \* the ConfigReadError reported: source and path

fontVars == <<caption, qr_code, image, fpc, font_size, measured, font_result,
              font_error, composed>>

nameVars == <<filename_template, filament_name, filename_transformations, npc, basename,
              apply_string, transformation, transformed>>

initVars == <<files, user_dir, init_runs, init_last>>

cliVars == <<cmd, flags, user_config, input, history, cpc, args, settings, shadow, stamped,
             preview, revisions, out_image, out_record, exit_code, error>>

vars == <<fontVars, nameVars, initVars, cliVars>>

Max(a, b) == IF a >= b THEN a ELSE b

(***************************************************************************)
(* Bounds of the font model.                                               *)
(***************************************************************************)
MaxFontSizeMax == 3
MaxBorder == 1
MaxModuleSize == 2
\* caption.font_size_max is a plain int: zero and negative values are accepted.
FontSizeMaxValues == (0 - 1) .. MaxFontSizeMax
\* padding_top, padding_bottom and line_spacing are plain ints as well.
PaddingValues == {0 - 1, 0, 2}

QR_CODE_VERSION_MIN == 1
\* A version-v QR symbol has 17 + 4v modules a side.
QRModules == 17 + 4 * QR_CODE_VERSION_MIN

\* qrcode's make_image: a square of (modules + 2 * border) * box_size pixels.
QRImage(q) ==
    LET side == (QRModules + 2 * q.border) * q.module_size
    IN  [width |-> side, height |-> side]

BorderThickness == qr_code.border * qr_code.module_size

\* The widths font.getbbox may report for a caption line: an empty line, a
\* line that fits exactly, and a line one pixel too wide.
TextWidths == {0, image.width - BorderThickness, image.width - BorderThickness + 1}

\* ImageFont.truetype refuses a size that is not greater than zero (ValueError).
TruetypeRaises(size) == size <= 0

\* A fit test that looks at the first caption line only.
FitsLineOneOnly(w) == w[1] + BorderThickness <= image.width

Fits(w) == Max(w[1], w[2]) + BorderThickness <= image.width

NoImage == [width |-> 0, height |-> 0, paste |-> <<0, 0>>, pasted |-> [width |-> 0, height |-> 0],
            y_line_one |-> 0, y_line_two |-> 0]

\* The caption part of the state while another part of the program runs.
FontIdle ==
    /\ caption = [font_size_max |-> 0, padding_top |-> 0, padding_bottom |-> 0,
                  line_spacing |-> 0]
    /\ qr_code = [module_size |-> 1, border |-> 0]
    /\ image = [width |-> 0, height |-> 0]
    /\ fpc = "idle"
    /\ font_size = 0
    /\ measured = << >>
    /\ font_result = 0
    /\ font_error = "none"
    /\ composed = NoImage

\* The filename part of the state while another part of the program runs.
NameIdle ==
    /\ filename_template = << >>
    /\ filament_name = << >>
    /\ filename_transformations = << >>
    /\ npc = "idle"
    /\ basename = << >>
    /\ apply_string = << >>
    /\ transformation = "none"
    /\ transformed = << >>

NoFile == [exists |-> FALSE, content |-> << >>]

NoCommand == [destination |-> "none", force |-> FALSE, existed |-> FALSE, before |-> << >>]

\* The config-file part of the state while another part of the program runs.
InitIdle ==
    /\ files = [d \in {"user", "cwd"} |-> NoFile]
    /\ user_dir = FALSE
    /\ init_runs = 0
    /\ init_last = NoCommand

NONE == "None"

\* No text: a file that does not exist, a payload not yet produced.
NoText == [encoding |-> "none", lines |-> << >>]

NoError == [source |-> NONE, path |-> NONE]

\* The command part of the state while another part of the program runs.
CliIdle ==
    /\ cmd = "idle"
    /\ flags = << >>
    /\ user_config = << >>
    /\ input = << >>
    /\ history = NoText
    /\ cpc = "idle"
    /\ args = << >>
    /\ settings = << >>
    /\ shadow = << >>
    /\ stamped = FALSE
    /\ preview = NoText
    /\ revisions = 0
    /\ out_image = NoText
    /\ out_record = NoText
    /\ exit_code = 0
    /\ error = NoError

InitFont ==
    /\ caption \in [font_size_max : FontSizeMaxValues, padding_top : PaddingValues,
                    padding_bottom : PaddingValues, line_spacing : PaddingValues]
    \* qrcode makes no image for a box size below 1 or a negative border
    /\ qr_code \in [module_size : 1 .. MaxModuleSize, border : 0 .. MaxBorder]
    /\ image = QRImage(qr_code)
    /\ fpc = "start"
    /\ font_size = 0
    /\ measured = << >>
    /\ font_result = 0
    /\ font_error = "none"
    /\ composed = NoImage
    /\ NameIdle
    /\ InitIdle
    /\ CliIdle

\* A search that starts one size above the configured maximum.
FontSizeStartAbove == caption.font_size_max + 1

\* _get_font_size, lines 203-204: font_size = font_size_max.
FontSizeStart == caption.font_size_max

GetFontSizeEnter ==
    /\ fpc = "start"
    /\ fpc' = "loop"
    /\ font_size' = FontSizeStart
    /\ UNCHANGED <<caption, qr_code, image, measured, font_result, font_error, composed>>
    /\ UNCHANGED <<nameVars, initVars, cliVars>>

\* What the loop does after a size that does not fit: font_size -= 1, then the
\* check font_size < 1.
NextFontSize(s) == s - 1

TooSmall(s) == s < 1

\* One pass of the while loop of _get_font_size.
GetFontSizeStep ==
    /\ fpc = "loop"
    /\ IF TruetypeRaises(font_size)
       THEN /\ fpc' = "raised"
            /\ font_error' = "ValueError"
            /\ UNCHANGED <<font_size, measured, font_result>>
       ELSE \E w1 \in TextWidths, w2 \in TextWidths :
              /\ measured' = (font_size :> <<w1, w2>>) @@ measured
              /\ IF Fits(<<w1, w2>>)
                 THEN /\ fpc' = "returned"
                      /\ font_result' = font_size
                      /\ UNCHANGED <<font_size, font_error>>
                 ELSE IF TooSmall(NextFontSize(font_size))
                      THEN /\ fpc' = "raised"
                           /\ font_error' = "ValueError"
                           /\ font_size' = NextFontSize(font_size)
                           /\ UNCHANGED font_result
                      ELSE /\ font_size' = NextFontSize(font_size)
                           /\ UNCHANGED <<fpc, font_result, font_error>>
    /\ UNCHANGED <<caption, qr_code, image, composed>>
    /\ UNCHANGED <<nameVars, initVars, cliVars>>

\* y_draw_pos of the first caption line (line 166).
YLineOne(img, fs) == img.height + caption.padding_top + fs

\* A second line advanced by the line spacing alone.
YLineTwoNoFontSize(img, fs) == YLineOne(img, fs) + caption.line_spacing

\* y_draw_pos of the second caption line (line 181).
YLineTwo(img, fs) == YLineOne(img, fs) + caption.line_spacing + fs

\* caption_bbox_height and image_height (lines 136-144).
CaptionImageHeight(img, fs) ==
    img.height
    + (caption.padding_top + fs + caption.line_spacing + fs + caption.padding_bottom)
    + BorderThickness

\* The rest of _add_caption_to_image once _get_font_size has returned.
AddCaptionCompose ==
    /\ fpc = "returned"
    /\ fpc' = "composed"
    /\ composed' = [width |-> image.width,
                    height |-> CaptionImageHeight(image, font_result),
                    paste |-> <<0, 0>>,
                    pasted |-> image,
                    y_line_one |-> YLineOne(image, font_result),
                    y_line_two |-> YLineTwo(image, font_result)]
    /\ UNCHANGED <<caption, qr_code, image, font_size, measured, font_result, font_error>>
    /\ UNCHANGED <<nameVars, initVars, cliVars>>

NextFont ==
    \/ GetFontSizeEnter
    \/ GetFontSizeStep
    \/ AddCaptionCompose

SpecFont == InitFont /\ [][NextFont]_vars

(***************************************************************************)
(* helpers.py: generate_basename and the string transformations of         *)
(* shared.py.  A string is a sequence of characters; "TAB" stands for a    *)
(* whitespace character other than the space, "E_ACUTE" for a letter with  *)
(* a diacritic (NFKD: "e" followed by a combining accent), "O_SLASH" for a *)
(* letter NFKD leaves as it is, and "MATH_A" for U+1D400, MATHEMATICAL     *)
(* BOLD CAPITAL A: an uppercase letter (category Lu) that has no lowercase *)
(* mapping and whose compatibility decomposition is "A".                   *)
(***************************************************************************)
MaxTemplateLen == 3
MaxTransformations == 2
MaxStringLen == 3

Chars == {" ", "TAB", "A", "a", "-", "E_ACUTE", "O_SLASH", "MATH_A"}
\* The replacement field {filament-name} of a template.
FIELD == "{filament-name}"

StringTransformations ==
    {"to-ascii", "to-lowercase", "remove-spaces", "spaces-to-dashes", "spaces-to-underscores"}

IsSpace(c) == c \in {" ", "TAB"}

SeqsUpTo(S, n) == UNION {[1 .. k -> S] : k \in 0 .. n}

\* The values Setting.update leaves in a str setting: stripped text.
FilamentNames == {<< >>, <<"A">>, <<"A", " ", "a">>}

RECURSIVE LStrip(_)
LStrip(str) ==
    IF str # << >> /\ IsSpace(Head(str)) THEN LStrip(Tail(str)) ELSE str

RECURSIVE RStrip(_)
RStrip(str) ==
    IF str # << >> /\ IsSpace(str[Len(str)])
    THEN RStrip(SubSeq(str, 1, Len(str) - 1))
    ELSE str

\* str.strip()
Strip(str) == RStrip(LStrip(str))

\* unicodedata.normalize("NFKD", c).encode("ascii", "ignore").decode("ascii")
ToAsciiChar(c) ==
    CASE c = "E_ACUTE" -> <<"e">>
      [] c = "MATH_A" -> <<"A">>
      [] c = "O_SLASH" -> << >>
      [] OTHER -> <<c>>

\* A lower() that changes no character.
ToLowerCharKept(c) == c

\* str.lower() on one character
ToLowerChar(c) == IF c = "A" THEN "a" ELSE c

RECURSIVE ToAscii(_)
ToAscii(str) ==
    IF str = << >> THEN << >> ELSE ToAsciiChar(Head(str)) \o ToAscii(Tail(str))

ToLowercase(str) == [i \in 1 .. Len(str) |-> ToLowerChar(str[i])]

\* str.replace(" ", "")
RECURSIVE RemoveSpaces(_)
RemoveSpaces(str) ==
    IF str = << >> THEN << >>
    ELSE IF Head(str) = " " THEN RemoveSpaces(Tail(str))
    ELSE <<Head(str)>> \o RemoveSpaces(Tail(str))

\* re.sub(r"[\s<sep>]+", sep, str): every maximal run of whitespace and
\* separators becomes one separator.
RECURSIVE CollapseRuns(_, _, _)
CollapseRuns(str, sep, inRun) ==
    IF str = << >> THEN << >>
    ELSE IF IsSpace(Head(str)) \/ Head(str) = sep
         THEN (IF inRun THEN << >> ELSE <<sep>>) \o CollapseRuns(Tail(str), sep, TRUE)
         ELSE <<Head(str)>> \o CollapseRuns(Tail(str), sep, FALSE)

\* StringTransformation.apply
Apply(t, str) ==
    CASE t = "to-ascii" -> ToAscii(str)
      [] t = "to-lowercase" -> ToLowercase(str)
      [] t = "remove-spaces" -> RemoveSpaces(str)
      [] t = "spaces-to-dashes" -> CollapseRuns(str, "-", FALSE)
      [] t = "spaces-to-underscores" -> CollapseRuns(str, "_", FALSE)

\* to_template_context: a falsy value is shown as "?".
TemplateContext(value) == IF value = << >> THEN <<"?">> ELSE value

\* template.format, with the template context as keyword arguments
RECURSIVE Format(_, _)
Format(template, ctx) ==
    IF template = << >> THEN << >>
    ELSE (IF Head(template) = FIELD THEN ctx ELSE <<Head(template)>>)
         \o Format(Tail(template), ctx)

\* apply_string_transformations: the string is stripped; each transformation
\* is applied to it in turn and the value apply returns is dropped (line 118).
ApplyStringTransformations(string, string_transformations) ==
    LET stripped == Strip(string)
        returned == [i \in 1 .. Len(string_transformations) |->
                        Apply(string_transformations[i], stripped)]
    IN  stripped

\* generate_basename
GenerateBasenameOf(template, template_context, string_transformations) ==
    ApplyStringTransformations(Format(template, template_context), string_transformations)

InitName ==
    /\ filename_template \in SeqsUpTo(Chars \cup {FIELD}, MaxTemplateLen)
    /\ filament_name \in FilamentNames
    /\ filename_transformations \in SeqsUpTo(StringTransformations, MaxTransformations)
    /\ npc = "start"
    /\ basename = << >>
    /\ apply_string = << >>
    /\ transformation = "none"
    /\ transformed = << >>
    /\ FontIdle
    /\ InitIdle
    /\ CliIdle

GenerateBasename ==
    /\ npc = "start"
    /\ npc' = "done"
    /\ basename' = GenerateBasenameOf(filename_template, TemplateContext(filament_name),
                                      filename_transformations)
    /\ UNCHANGED <<filename_template, filament_name, filename_transformations>>
    /\ UNCHANGED <<apply_string, transformation, transformed>>
    /\ UNCHANGED <<fontVars, initVars, cliVars>>

NextName == GenerateBasename

SpecName == InitName /\ [][NextName]_vars

InitApply ==
    /\ apply_string \in SeqsUpTo(Chars, MaxStringLen)
    /\ transformation = "none"
    /\ transformed = << >>
    /\ filename_template = << >>
    /\ filament_name = << >>
    /\ filename_transformations = << >>
    /\ npc = "idle"
    /\ basename = << >>
    /\ FontIdle
    /\ InitIdle
    /\ CliIdle

\* string_transformation.apply(string), for any of the five transformations
StringTransformationApply ==
    /\ transformation = "none"
    /\ \E t \in StringTransformations :
          /\ transformation' = t
          /\ transformed' = Apply(t, apply_string)
    /\ UNCHANGED <<apply_string, filename_template, filament_name, filename_transformations, npc,
                   basename>>
    /\ UNCHANGED <<fontVars, initVars, cliVars>>

NextApply == StringTransformationApply

SpecApply == InitApply /\ [][NextApply]_vars

\* The transformations chained: each applied to the result of the previous one.
RECURSIVE Chained(_, _)
Chained(string, string_transformations) ==
    IF string_transformations = << >> THEN string
    ELSE Chained(Apply(Head(string_transformations), string), Tail(string_transformations))

\* C4: generate_basename returns the formatted template, stripped, with every
\* requested transformation applied to it in the given order, each to the
\* result of the previous one.
C4_BasenameTransformed ==
    npc = "done" =>
        basename = Chained(Strip(Format(filename_template, TemplateContext(filament_name))),
                           filename_transformations)

(***************************************************************************)
(* app.py: save_config_file, with helpers.copy_file and                    *)
(* build_config_file_header.  A file is a sequence of lines.               *)
(***************************************************************************)
MaxFileLines == 2
MaxInitRuns == 2

\* The lines a config file may hold before the command runs: a blank line, a
\* key line, and a key line with leading whitespace.
ConfigLines == {"", "key = 1", "  key = 1"}

\* The packaged default config (ConfigManager.DEFAULT_LOCATION).
DefaultConfig == <<"[options]", "  key = 0">>

\* line.strip()
StripLine(line) == IF line = "  key = 1" THEN "key = 1"
                   ELSE IF line = "  key = 0" THEN "key = 0"
                   ELSE line

RECURSIVE DropLeadingBlank(_)
DropLeadingBlank(lines) ==
    IF lines # << >> /\ Head(lines) = "" THEN DropLeadingBlank(Tail(lines)) ELSE lines

RECURSIVE DropTrailingBlank(_)
DropTrailingBlank(lines) ==
    IF lines # << >> /\ lines[Len(lines)] = ""
    THEN DropTrailingBlank(SubSeq(lines, 1, Len(lines) - 1))
    ELSE lines

\* path.read_text().strip(), as lines
StripText(lines) == DropTrailingBlank(DropLeadingBlank(lines))

\* build_config_file_header: the path comment, "# ", the rendered panel (one
\* line stands for its lines), three blank lines, then the stripped text of
\* the file as it is now; every line stripped.
BuildConfigFileHeader(content) ==
    LET text == <<"# path", "# ", "# panel", "", "", "">> \o StripText(content)
        stripped == [i \in 1 .. Len(text) |->
                        IF text[i] = "# " THEN "#" ELSE StripLine(text[i])]
    IN  stripped

\* helpers.copy_file on the destination file: skipped when the file exists
\* and force is False, else shutil.copy of the packaged default.
CopyFile(file, force) ==
    IF file.exists /\ ~force THEN file
    ELSE [exists |-> TRUE, content |-> DefaultConfig]

\* save_config_file: copy_file, then the header is written over the file
\* (line 92) whether or not the copy was skipped.
SaveConfigFile(destination, create_destination, force) ==
    /\ init_runs < MaxInitRuns
    \* shutil.copy needs the destination directory
    /\ destination = "user" => (user_dir \/ create_destination)
    /\ LET copied == CopyFile(files[destination], force)
       IN  files' = [files EXCEPT ![destination] =
                        [exists |-> TRUE, content |-> BuildConfigFileHeader(copied.content)]]
    /\ user_dir' = (user_dir \/ destination = "user")
    /\ init_runs' = init_runs + 1
    /\ init_last' = [destination |-> destination, force |-> force,
                     existed |-> files[destination].exists,
                     before |-> files[destination].content]
    /\ UNCHANGED <<fontVars, nameVars, cliVars>>

\* 'init app [--force]'
InitAppCommand == \E force \in BOOLEAN : SaveConfigFile("user", TRUE, force)

\* 'init config [--force]'
InitTemplateConfig == \E force \in BOOLEAN : SaveConfigFile("cwd", FALSE, force)

ExistingFiles ==
    {NoFile} \cup [exists : {TRUE}, content : SeqsUpTo(ConfigLines, MaxFileLines)]

InitInit ==
    /\ files \in [{"user", "cwd"} -> ExistingFiles]
    /\ user_dir \in {b \in BOOLEAN : files["user"].exists => b}
    /\ init_runs = 0
    /\ init_last = NoCommand
    /\ FontIdle
    /\ NameIdle
    /\ CliIdle

NextInit ==
    \/ InitAppCommand
    \/ InitTemplateConfig

SpecInit == InitInit /\ [][NextInit]_vars

\* C5: when the config file exists at the destination and --force is not
\* given, 'init app' and 'init config' leave the content of the file as it
\* was.
C5_ExistingConfigKeptWithoutForce ==
    (init_last.destination # "none" /\ init_last.existed /\ ~init_last.force) =>
        files[init_last.destination].content = init_last.before

(***************************************************************************)
(* settings.py: the settings registry.  Values are written as strings:     *)
(* "200" is the int 200, "0" the int 0, "None" is None.                    *)
(***************************************************************************)
MaxRevisions == 1

\* The registry of print-settings.toml, in file order: a str setting that
\* heads its category, an int setting with a unit, and the date.
Registry == <<"filament-name", "filament-temp", "misc-date">>

Paths == {Registry[i] : i \in 1 .. Len(Registry)}

SettingCategory(path) == IF path = "misc-date" THEN "misc" ELSE "filament"

SettingName(path) ==
    CASE path = "filament-name" -> "name"
      [] path = "filament-temp" -> "temp"
      [] path = "misc-date" -> "date"

SettingType(path) == IF path = "filament-temp" THEN "int" ELSE "str"

\* A registry in which no setting has a unit.
SettingUnitNone(path) == ""

\* Unit.TEMPERATURE for the temperature, no unit otherwise ("": None)
SettingUnit(path) == IF path = "filament-temp" THEN "C" ELSE ""

SettingCompactName(path) ==
    CASE path = "filament-name" -> ""
      [] path = "filament-temp" -> "ft"
      [] path = "misc-date" -> "dt"

\* Setting.build_fully_qualified_path
BuildFullyQualifiedPath(category, name) ==
    CHOOSE path \in Paths : SettingCategory(path) = category /\ SettingName(path) = name

\* Category.paths(): the settings that head a category
CategoryPaths == {"filament-name", "printer-name", "slicer-name", "misc-name"}

\* value.strip() on the strings of the model
StripValue(value) == IF value = "PLA " THEN "PLA" ELSE value

\* Python's "not value" for a value of the setting's type
Falsy(type, value) ==
    \/ value = NONE
    \/ type = "str" /\ value = ""
    \/ type = "int" /\ value = "0"

\* Setting.clear: the empty value of the type
EmptyOf(type) == IF type = "int" THEN "0" ELSE ""

\* Setting.update: the new _value
SettingUpdate(path, value) ==
    LET stripped == IF SettingType(path) = "str" THEN StripValue(value) ELSE value
    IN  IF Falsy(SettingType(path), stripped) THEN EmptyOf(SettingType(path)) ELSE stripped

\* Setting.value
SettingValue(path, value) ==
    IF Falsy(SettingType(path), value) THEN EmptyOf(SettingType(path)) ELSE value

\* Serialized settings with no entry
EmptyData == [path \in {} |-> NONE]

\* PrintSettings.update: every entry of data goes through Setting.update
PrintSettingsUpdate(print_settings, data) ==
    [path \in Paths |->
        IF path \in DOMAIN data THEN SettingUpdate(path, data[path])
        ELSE print_settings[path]]

\* PrintSettings.stamp_date: datetime.now().strftime(date_template)
StampDate(print_settings) ==
    [print_settings EXCEPT !["misc-date"] = SettingUpdate("misc-date", "today")]

\* One entry of the TOML text: [category] name = value, the unit appended
\* when units are asked for and the setting has one.
TomlEntry(path, value, with_units) ==
    [category |-> SettingCategory(path), name |-> SettingName(path),
     value |-> SettingValue(path, value),
     unit |-> IF with_units THEN SettingUnit(path) ELSE ""]

\* _encode_to_str_toml over _to_dict: the entries in registry order.
RECURSIVE TomlEntries(_, _, _, _)
TomlEntries(print_settings, with_units, filter_empty_values, i) ==
    IF i > Len(Registry) THEN << >>
    ELSE LET path == Registry[i]
             keep == ~filter_empty_values
                     \/ ~Falsy(SettingType(path), print_settings[path])
         IN  (IF keep THEN <<TomlEntry(path, print_settings[path], with_units)>> ELSE << >>)
             \o TomlEntries(print_settings, with_units, filter_empty_values, i + 1)

EncodeToStrToml(print_settings, with_units, filter_empty_values) ==
    [encoding |-> "toml",
     lines |-> TomlEntries(print_settings, with_units, filter_empty_values, 1)]

\* _encode_to_str_compact: one line per non-empty setting, a category
\* placeholder for an empty setting that heads its category.
RECURSIVE CompactLines(_, _, _)
CompactLines(print_settings, with_units, i) ==
    IF i > Len(Registry) THEN << >>
    ELSE LET path == Registry[i]
             line ==
                 IF Falsy(SettingType(path), print_settings[path])
                 THEN IF path \in CategoryPaths
                      THEN <<[category |-> SettingCategory(path), name |-> "[placeholder]",
                              value |-> "", unit |-> ""]>>
                      ELSE << >>
                 ELSE <<[category |-> SettingCategory(path),
                         name |-> SettingCompactName(path),
                         value |-> print_settings[path],
                         unit |-> IF with_units THEN SettingUnit(path) ELSE ""]>>
         IN  line \o CompactLines(print_settings, with_units, i + 1)

EncodeToStrCompact(print_settings, with_units) ==
    [encoding |-> "compact", lines |-> CompactLines(print_settings, with_units, 1)]

\* An argument as Python passes it: the value together with its type.
EncArg(e) == [type |-> "Encoding", value |-> e]

BoolArg(b) == [type |-> "bool", value |-> IF b THEN "True" ELSE "False"]

\* "case Encoding.COMPACT": the argument equals the string "compact"
MatchesCompact(arg) == arg.type = "Encoding" /\ arg.value = "compact"

\* the truth value of an argument: a bool is itself, an Encoding is a
\* non-empty string
Truthy(arg) == IF arg.type = "bool" THEN arg.value = "True" ELSE TRUE

\* PrintSettings.to_encoded_str
ToEncodedStr(print_settings, encoding, with_units) ==
    IF MatchesCompact(encoding)
    THEN EncodeToStrCompact(print_settings, Truthy(with_units))
    ELSE EncodeToStrToml(print_settings, Truthy(with_units), TRUE)

\* A dump that writes every value with its unit.
DumpWithUnits(print_settings) == EncodeToStrToml(print_settings, TRUE, FALSE)

\* A dump that leaves out the empty settings.
DumpFiltered(print_settings) == EncodeToStrToml(print_settings, FALSE, TRUE)

\* PrintSettings.dump
Dump(print_settings) == EncodeToStrToml(print_settings, FALSE, FALSE)

\* tomllib.load of a TOML text: category -> name -> value, flattened to paths;
\* a value written with its unit is read back as the text of both.
ParseToml(text) ==
    LET n == Len(text.lines)
        at(path) == CHOOSE i \in 1 .. n :
                        BuildFullyQualifiedPath(text.lines[i].category, text.lines[i].name) = path
    IN  [path \in {BuildFullyQualifiedPath(text.lines[i].category, text.lines[i].name) :
                      i \in 1 .. n} |->
            text.lines[at(path)].value \o text.lines[at(path)].unit]

(***************************************************************************)
(* cli.py and app.py: the generate commands.                               *)
(***************************************************************************)
Commands == {"prompts", "args", "template", "revise"}

\* An optional flag: not given, or one of its two forms.
OptionalBool == {NONE, "True", "False"}

\* The options of the packaged pqr.toml, which CONFIG holds until a user
\* config is loaded.
DefaultOptions == [encoding |-> "toml", with_units |-> FALSE, add_date |-> FALSE]

\* The print-settings section of the packaged pqr.toml.
DefaultPrintSettings == EmptyData

\* PRINT_SETTINGS after PRINT_SETTINGS.load() and load_config(user=False)
LoadedSettings == PrintSettingsUpdate([path \in Paths |-> NONE], DefaultPrintSettings)

\* The print-settings sections a user config may hold.
UserPrintSettings == {EmptyData, "filament-temp" :> "200"}

\* The values the args command may be given ("None": option not given).
ArgsData ==
    {[path \in Paths \ {"misc-date"} |-> IF path = "filament-name" THEN n ELSE t] :
        n \in {NONE, "PLA"}, t \in {NONE, "210"}}

\* The contents a template file may have.
TemplateData ==
    {"filament-name" :> "PLA ",
     ("filament-name" :> "ABS") @@ ("filament-temp" :> "0") @@ ("misc-date" :> "old")}

\* The history file a previous run left.
OldHistory ==
    Dump(("filament-name" :> "PLA") @@ ("filament-temp" :> "200") @@ ("misc-date" :> "old"))

\* The history file of a run that saved a cleared temperature and no date.
OldHistoryCleared ==
    Dump(("filament-name" :> "ABS") @@ ("filament-temp" :> "0") @@ ("misc-date" :> ""))

NoInput == [status |-> "none", data |-> EmptyData]

Inputs(c) ==
    CASE c = "args" -> [status : {"none"}, data : ArgsData]
      [] c = "template" ->
            [status : {"ok"}, data : TemplateData]
            \cup [status : {"missing", "malformed", "bad_suffix"},
                  data : {"filament-name" :> "PLA "}]
      [] OTHER -> {NoInput}

NoArgs == [ignore_defaults |-> FALSE, encoding |-> NONE, with_units |-> FALSE, add_date |-> FALSE]

\* The user config as load_config(user=True) reads it when pqr.toml is a
\* fresh copy of the packaged one.
PackagedConfig == [options |-> DefaultOptions, print_settings |-> DefaultPrintSettings]

\* ~/.pqr before the command: not there yet, there without a pqr.toml, or
\* set up with one.
UserDataDirectories ==
    {[user_dir |-> FALSE, config |-> NoFile],
     [user_dir |-> TRUE, config |-> NoFile],
     [user_dir |-> TRUE, config |-> [exists |-> TRUE, content |-> <<"key = 1">>]]}

\* is_user_config_setup: ~/.pqr and ~/.pqr/pqr.toml exist
IsUserConfigSetup == user_dir /\ files["user"].exists

InitCli ==
    /\ cmd \in Commands
    /\ flags \in [ignore_defaults : BOOLEAN, encoding : {NONE, "toml", "compact"},
                  with_units : OptionalBool, add_date : OptionalBool]
    /\ \E directory \in UserDataDirectories :
          /\ user_dir = directory.user_dir
          /\ files = [d \in {"user", "cwd"} |-> IF d = "user" THEN directory.config ELSE NoFile]
    /\ init_runs = 0
    /\ init_last = NoCommand
    /\ user_config \in (IF IsUserConfigSetup
                         THEN [options : [encoding : {"toml", "compact"}, with_units : BOOLEAN,
                                          add_date : BOOLEAN],
                               print_settings : UserPrintSettings]
                         ELSE {PackagedConfig})
    /\ input \in Inputs(cmd)
    \* history.toml lives in ~/.pqr
    /\ history \in (IF ~user_dir THEN {NoText}
                    ELSE IF cmd = "revise" THEN {NoText, OldHistory, OldHistoryCleared}
                    ELSE {OldHistory})
    /\ cpc = "start"
    /\ args = NoArgs
    /\ settings = LoadedSettings
    /\ shadow = LoadedSettings
    /\ stamped = FALSE
    /\ preview = NoText
    /\ revisions = 0
    /\ out_image = NoText
    /\ out_record = NoText
    /\ exit_code = 0
    /\ error = NoError
    /\ FontIdle
    /\ NameIdle

\* "flag if flag is not None else config value"
Resolve(flag, configured) == IF flag # NONE THEN flag = "True" ELSE configured

\* process_shared_args: a user config that is not set up is created first
\* (save_config_file with its defaults), the user config is loaded unless
\* --ignore-defaults is given, then every option not given is taken from
\* CONFIG.
ProcessSharedArgs ==
    /\ cpc = "start"
    /\ IF IsUserConfigSetup
       THEN UNCHANGED <<files, user_dir>>
       ELSE /\ files' = [files EXCEPT !["user"] =
                            [exists |-> TRUE,
                             content |-> BuildConfigFileHeader(
                                             CopyFile(files["user"], FALSE).content)]]
            /\ user_dir' = TRUE
    /\ LET options == IF flags.ignore_defaults THEN DefaultOptions ELSE user_config.options
       IN  /\ args' = [ignore_defaults |-> flags.ignore_defaults,
                       encoding |-> IF flags.encoding # NONE THEN flags.encoding
                                    ELSE options.encoding,
                       with_units |-> Resolve(flags.with_units, options.with_units),
                       add_date |-> Resolve(flags.add_date, options.add_date)]
           /\ settings' = IF flags.ignore_defaults THEN settings
                          ELSE PrintSettingsUpdate(settings, user_config.print_settings)
           /\ shadow' = IF flags.ignore_defaults THEN shadow
                        ELSE PrintSettingsUpdate(shadow, EmptyData)
    /\ cpc' = "args_done"
    /\ UNCHANGED <<cmd, flags, user_config, input, history, stamped, preview, revisions,
                   out_image, out_record, exit_code, error>>
    /\ UNCHANGED <<init_runs, init_last>>
    /\ UNCHANGED <<fontVars, nameVars>>

\* What the user may answer to the prompt of a setting: the Enter key, which
\* takes the default shown, or a value typed in.
ReplyValues(path) ==
    CASE path = "filament-name" -> {"ENTER", "ABS"}
      [] path = "filament-temp" -> {"ENTER", "210"}
      [] path = "misc-date" -> {"ENTER"}

Replies == {r \in [Paths -> {"ENTER", "ABS", "210"}] : \A path \in Paths : r[path] \in ReplyValues(path)}

\* prompt.ask(prompt_text, default=default)
Ask(reply, default) == IF reply = "ENTER" THEN default ELSE reply

\* "setting.value or None"
ValueOrNone(path, value) == IF Falsy(SettingType(path), value) THEN NONE ELSE value

\* prompt_date: with no date yet the date template is asked for and today's
\* date formatted with it; on a later pass the formatted date is shown.
PromptDate(date, reply) == IF date = NONE THEN "today" ELSE Ask(reply, date)

\* prompt_print_settings
PromptPrintSettings(print_settings, ignore_defaults, add_date, replies) ==
    [path \in Paths |->
        IF path = "misc-date"
        THEN IF add_date
             THEN SettingUpdate(path, PromptDate(ValueOrNone(path, print_settings[path]),
                                                 replies[path]))
             ELSE print_settings[path]
        ELSE SettingUpdate(path,
                 Ask(replies[path],
                     IF ignore_defaults THEN NONE
                     ELSE ValueOrNone(path, print_settings[path])))]

\* The top of the loop of revise_print_settings: the payload shown.
PreviewOf(print_settings) ==
    ToEncodedStr(print_settings, EncArg(args.encoding), BoolArg(args.with_units))

\* The test the args, template and revise commands make before stamping
\* the date: "if add_date is True", on the option as given.
StampWanted == flags.add_date = "True"

MaybeStamp(print_settings) == IF StampWanted THEN StampDate(print_settings) ELSE print_settings

\* A reader that takes a file of any suffix for TOML.
HelpersReadRaisesNoSuffixCheck(status) == status \in {"missing", "malformed"}

\* helpers.read_serialized_data raises: a missing file, content the parser
\* rejects, or a suffix that is none of .toml, .yaml, .json
HelpersReadRaises(status) == status \in {"missing", "malformed", "bad_suffix"}

ReadErrorSource(status) ==
    CASE status = "missing" -> "FileNotFoundError"
      [] status = "malformed" -> "DecodeError"
      [] status = "bad_suffix" -> "ValueError"
      [] OTHER -> NONE

\* 'prompts': the settings are asked for, then previewed.
RunCommandGenerateFromPrompts ==
    /\ cpc = "args_done" /\ cmd = "prompts"
    /\ \E replies \in Replies :
          /\ settings' = PromptPrintSettings(settings, args.ignore_defaults, args.add_date,
                                             replies)
          /\ shadow' = PromptPrintSettings(shadow, args.ignore_defaults, args.add_date,
                                           replies)
    /\ preview' = PreviewOf(settings')
    /\ cpc' = "preview"
    /\ UNCHANGED <<cmd, flags, user_config, input, history, args, stamped, revisions,
                   out_image, out_record, exit_code, error>>
    /\ UNCHANGED <<fontVars, nameVars, initVars>>

\* 'args': every setting but the date is updated from the command line (an
\* option not given arrives as None), the date is stamped, then the preview.
RunCommandGenerateFromArgs ==
    /\ cpc = "args_done" /\ cmd = "args"
    /\ settings' = MaybeStamp(PrintSettingsUpdate(settings, input.data))
    /\ shadow' = MaybeStamp(PrintSettingsUpdate(shadow, input.data))
    /\ stamped' = StampWanted
    /\ preview' = PreviewOf(settings')
    /\ cpc' = "preview"
    /\ UNCHANGED <<cmd, flags, user_config, input, history, args, revisions,
                   out_image, out_record, exit_code, error>>
    /\ UNCHANGED <<fontVars, nameVars, initVars>>

\* The body the template and revise commands share once the path is known:
\* the file is read (a failure is reported and the program exits with -1),
\* the user config is loaded, the settings are updated from the data, the
\* date is stamped and the first preview is shown.
GenerateFromFile(status, data, path) ==
    /\ IF HelpersReadRaises(status)
       THEN /\ error' = [source |-> ReadErrorSource(status), path |-> path]
            /\ exit_code' = 0 - 1
            /\ cpc' = "exited"
            /\ UNCHANGED <<settings, shadow, stamped, preview>>
       ELSE /\ settings' = MaybeStamp(PrintSettingsUpdate(
                              PrintSettingsUpdate(settings, user_config.print_settings), data))
            /\ shadow' = MaybeStamp(PrintSettingsUpdate(
                              PrintSettingsUpdate(shadow, EmptyData), data))
            /\ stamped' = StampWanted
            /\ preview' = PreviewOf(settings')
            /\ cpc' = "preview"
            /\ UNCHANGED <<error, exit_code>>
    /\ UNCHANGED <<cmd, flags, user_config, input, history, args, revisions,
                   out_image, out_record>>
    /\ UNCHANGED <<fontVars, nameVars, initVars>>

\* 'template PATH'
RunCommandGenerateFromTemplate ==
    /\ cpc = "args_done" /\ cmd = "template"
    /\ GenerateFromFile(input.status, input.data, "template")

\* 'revise': the file is history.toml of the user data directory
RunCommandGenerateFromHistory ==
    /\ cpc = "args_done" /\ cmd = "revise"
    /\ IF history = NoText
       THEN GenerateFromFile("missing", EmptyData, "history.toml")
       ELSE GenerateFromFile("ok", ParseToml(history), "history.toml")

\* generate_and_save_qr_code(print_settings, add_caption, with_units, encoding, ...):
\* the payload of the image.
GenerateAndSaveQrCode(print_settings, add_caption, with_units, encoding) ==
    ToEncodedStr(print_settings, encoding, with_units)

\* The call each command makes: 'prompts' passes args.encoding and then
\* args.with_units (lines 353-357), the other three args.with_units and
\* then args.encoding.
SavedPayload(c, print_settings, a) ==
    IF c = "prompts"
    THEN GenerateAndSaveQrCode(print_settings, FALSE, EncArg(a.encoding), BoolArg(a.with_units))
    ELSE GenerateAndSaveQrCode(print_settings, FALSE, BoolArg(a.with_units), EncArg(a.encoding))

\* Reply G: the loop ends and generate_and_save_qr_code runs.  With a caption
\* asked for, the font-size search may raise before anything is written.
ReplyGenerate ==
    /\ cpc = "preview"
    /\ \E add_caption \in BOOLEAN, caption_fits \in BOOLEAN :
          IF add_caption /\ ~caption_fits
          THEN /\ cpc' = "crashed"
               /\ UNCHANGED <<out_image, out_record, history>>
          ELSE /\ cpc' = "saved"
               /\ out_image' = SavedPayload(cmd, settings, args)
               /\ out_record' = Dump(settings)
               /\ history' = Dump(settings)
    /\ UNCHANGED <<cmd, flags, user_config, input, args, settings, shadow, stamped, preview,
                   revisions, exit_code, error>>
    /\ UNCHANGED <<fontVars, nameVars, initVars>>

\* Reply R: the settings are asked for again, then previewed again.
ReplyRevise ==
    /\ cpc = "preview"
    /\ revisions < MaxRevisions
    /\ \E replies \in Replies :
          /\ settings' = PromptPrintSettings(settings, args.ignore_defaults, args.add_date,
                                             replies)
          /\ shadow' = PromptPrintSettings(shadow, args.ignore_defaults, args.add_date,
                                           replies)
    /\ preview' = PreviewOf(settings')
    /\ revisions' = revisions + 1
    /\ UNCHANGED <<cmd, flags, user_config, input, history, cpc, args, stamped,
                   out_image, out_record, exit_code, error>>
    /\ UNCHANGED <<fontVars, nameVars, initVars>>

\* An Abort that leaves the previewed settings in the history file.
ReplyAbortSavingHistory ==
    /\ cpc = "preview"
    /\ cpc' = "exited"
    /\ exit_code' = 0 - 1
    /\ history' = Dump(settings)
    /\ UNCHANGED <<cmd, flags, user_config, input, args, settings, shadow, stamped,
                   preview, revisions, out_image, out_record, error>>
    /\ UNCHANGED <<fontVars, nameVars, initVars>>

\* Reply A: sys.exit(-1)
ReplyAbort ==
    /\ cpc = "preview"
    /\ cpc' = "exited"
    /\ exit_code' = 0 - 1
    /\ UNCHANGED <<cmd, flags, user_config, input, history, args, settings, shadow, stamped,
                   preview, revisions, out_image, out_record, error>>
    /\ UNCHANGED <<fontVars, nameVars, initVars>>

NextCli ==
    \/ ProcessSharedArgs
    \/ RunCommandGenerateFromPrompts
    \/ RunCommandGenerateFromArgs
    \/ RunCommandGenerateFromTemplate
    \/ RunCommandGenerateFromHistory
    \/ ReplyGenerate
    \/ ReplyRevise
    \/ ReplyAbort

SpecCli == InitCli /\ [][NextCli]_vars

(***************************************************************************)
(* cli.py: 'init template', with app.save_print_settings_file.  The file   *)
(* holds a TOML text as the list of its entries.                           *)
(***************************************************************************)

\* The print-settings sections the packaged pqr.toml may hold.
PackagedPrintSettings ==
    {DefaultPrintSettings,
     "filament-temp" :> "200",
     "filament-name" :> "PLA",
     ("filament-name" :> "PLA ") @@ ("filament-temp" :> "0") @@ ("misc-date" :> "old")}

\* PRINT_SETTINGS when a command starts: PRINT_SETTINGS.load(), then
\* load_config(user=False) updates it from the packaged print settings.
LoadedRegistries ==
    {PrintSettingsUpdate([path \in Paths |-> NONE], data) : data \in PackagedPrintSettings}

\* The print-settings.toml files the current directory may hold: none, an
\* empty file, a blank template, and a template the user has filled in.
TemplateFiles ==
    {NoFile,
     [exists |-> TRUE, content |-> << >>],
     [exists |-> TRUE, content |-> Dump([path \in Paths |-> NONE]).lines],
     [exists |-> TRUE, content |-> OldHistory.lines]}

\* A clear that leaves the registry as it is.
PrintSettingsClearNothing(print_settings) == print_settings

\* PrintSettings.clear: Setting.clear on every setting
PrintSettingsClear(print_settings) ==
    [path \in Paths |-> EmptyOf(SettingType(path))]

\* save_print_settings_file: an existing file is skipped unless force is
\* given, else the dump of the registry is written.
SavePrintSettingsFile(file, print_settings, force) ==
    IF file.exists /\ ~force THEN file
    ELSE [exists |-> TRUE, content |-> Dump(print_settings).lines]

InitTemplate ==
    /\ files \in [{"template"} -> TemplateFiles]
    /\ user_dir = FALSE
    /\ init_runs = 0
    /\ init_last = NoCommand
    /\ settings \in LoadedRegistries
    /\ cpc = "loaded"
    /\ cmd = "init template"
    /\ flags = << >>
    /\ user_config = << >>
    /\ input = << >>
    /\ history = NoText
    /\ args = << >>
    /\ shadow = << >>
    /\ stamped = FALSE
    /\ preview = NoText
    /\ revisions = 0
    /\ out_image = NoText
    /\ out_record = NoText
    /\ exit_code = 0
    /\ error = NoError
    /\ FontIdle
    /\ NameIdle

\* 'init template [--force]'
InitTemplateCommand ==
    /\ cpc = "loaded"
    /\ \E force \in BOOLEAN :
          /\ settings' = PrintSettingsClear(settings)
          /\ files' = [files EXCEPT !["template"] =
                          SavePrintSettingsFile(files["template"], settings', force)]
          /\ init_last' = [destination |-> "template", force |-> force,
                           existed |-> files["template"].exists,
                           before |-> files["template"].content,
                           loaded |-> settings]
    /\ init_runs' = init_runs + 1
    /\ cpc' = "done"
    /\ UNCHANGED <<cmd, flags, user_config, input, history, args, shadow, stamped, preview,
                   revisions, out_image, out_record, exit_code, error, user_dir>>
    /\ UNCHANGED <<fontVars, nameVars>>

\* The command is run again: a new process, its registry loaded anew.
MainAgain ==
    /\ cpc = "done"
    /\ init_runs < MaxInitRuns
    /\ settings' \in LoadedRegistries
    /\ cpc' = "loaded"
    /\ UNCHANGED <<cmd, flags, user_config, input, history, args, shadow, stamped, preview,
                   revisions, out_image, out_record, exit_code, error>>
    /\ UNCHANGED <<fontVars, nameVars, initVars>>

NextTemplate ==
    \/ InitTemplateCommand
    \/ MainAgain

SpecTemplate == InitTemplate /\ [][NextTemplate]_vars

(***************************************************************************)
(* Claims about StringTransformation.apply.                                *)
(***************************************************************************)

\* str.isspace() on the characters of the model
IsWhitespaceChar(c) == c \in {" ", "TAB"}

\* str.isupper() on the characters of the model
IsUppercaseChar(c) == c \in {"A", "MATH_A"}

\* The characters below U+0080
IsAsciiChar(c) == c \in {" ", "TAB", "A", "a", "e", "-", "_"}

\* The uppercase characters that have a lowercase form
HasLowercaseForm(c) == c = "A"

\* What the descriptions of the transformations other than TO_LOWERCASE
\* promise of the result.
DescribedResult ==
    /\ transformation = "remove-spaces" =>
          \A i \in 1 .. Len(transformed) : transformed[i] # " "
    /\ transformation \in {"spaces-to-dashes", "spaces-to-underscores"} =>
          \A i \in 1 .. Len(transformed) : ~IsWhitespaceChar(transformed[i])
    /\ transformation = "to-ascii" =>
          \A i \in 1 .. Len(transformed) : IsAsciiChar(transformed[i])

\* C14 as claimed: REMOVE_SPACES returns a string with no space character,
\* SPACES_TO_DASHES and SPACES_TO_UNDERSCORES strings with no whitespace
\* character, TO_ASCII a string of ASCII characters only, and TO_LOWERCASE
\* a string with no uppercase character.
C14_ApplyDoesWhatDescribed ==
    /\ DescribedResult
    /\ transformation = "to-lowercase" =>
          \A i \in 1 .. Len(transformed) : ~IsUppercaseChar(transformed[i])

\* C14 as amended: the same, except that TO_LOWERCASE returns the string
\* with every character that has a lowercase form replaced by it and every
\* other character kept, so that no uppercase character that has a
\* lowercase form is left.
C14_ApplyLowercasesWhatHasLowercase ==
    /\ DescribedResult
    /\ transformation = "to-lowercase" =>
          /\ Len(transformed) = Len(apply_string)
          /\ \A i \in 1 .. Len(transformed) :
                /\ ~HasLowercaseForm(transformed[i])
                /\ ~HasLowercaseForm(apply_string[i]) => transformed[i] = apply_string[i]
                /\ apply_string[i] = "A" => transformed[i] = "a"

\* TO_LOWERCASE applied to a string that holds an uppercase letter with a
\* lowercase form and one without.
C14_Witness ==
    /\ transformation = "to-lowercase"
    /\ \E i, j \in 1 .. Len(apply_string) :
          /\ apply_string[i] = "A" /\ transformed[i] = "a"
          /\ apply_string[j] = "MATH_A" /\ transformed[j] = "MATH_A"

(***************************************************************************)
(* Claims about the caption font size and the caption composition.         *)
(***************************************************************************)
FontReturned == fpc \in {"returned", "composed"}

\* The claim's own reading of "the caption at size s fits the image".
CaptionFitsAt(s) ==
    LET w1 == measured[s][1]
        w2 == measured[s][2]
        widest == IF w1 >= w2 THEN w1 ELSE w2
    IN  widest + qr_code.border * qr_code.module_size <= image.width

\* C1: with font_size_max >= 1, a size s returned by _get_font_size is the
\* largest size in 1..font_size_max at which the wider of the two caption
\* lines plus the border thickness is at most the image width: s fits, and
\* every size above s up to font_size_max was measured and does not fit.
C1_LargestFittingSize ==
    (FontReturned /\ caption.font_size_max >= 1) =>
        /\ font_result \in 1 .. caption.font_size_max
        /\ font_result \in DOMAIN measured
        /\ CaptionFitsAt(font_result)
        /\ \A s \in (font_result + 1) .. caption.font_size_max :
              s \in DOMAIN measured /\ ~CaptionFitsAt(s)

\* The search gave up the maximum because of the second line alone and
\* returned a smaller size.
C1_Witness ==
    /\ fpc = "returned"
    /\ caption.font_size_max = 3
    /\ font_result < 3
    /\ measured[3][1] < measured[3][2]

\* C9: for every integer font_size_max, _get_font_size terminates (each
\* pass of the loop can be taken, and the passes taken so far number
\* font_size_max - font_size, which never exceeds font_size_max - 1), and
\* it ends either returning a size in 1..font_size_max or raising
\* ValueError; no size below 1 is returned.
C9_FontSizeInRangeOrValueError ==
    /\ FontReturned =>
          /\ font_result >= 1
          /\ font_result <= caption.font_size_max
          /\ font_error = "none"
    /\ fpc = "raised" => font_error = "ValueError" /\ font_result = 0
    /\ fpc = "loop" =>
          /\ ENABLED GetFontSizeStep
          /\ font_size <= caption.font_size_max
          /\ font_size >= 1 \/ font_size = caption.font_size_max
          /\ Cardinality(DOMAIN measured) = caption.font_size_max - font_size

\* A font_size_max below 1 ends in ValueError before anything is measured.
C9_Witness ==
    /\ fpc = "raised"
    /\ caption.font_size_max < 1
    /\ measured = << >>
    /\ font_error = "ValueError"

\* C10: the composed image keeps the QR image's width, has the QR image
\* pasted unchanged at (0, 0), and is QR height + padding_top + 2*font_size
\* + line_spacing + padding_bottom + border*module_size high; when the
\* paddings, the line spacing and the border are not negative, both
\* baselines lie below the QR image's bottom edge and not below the
\* composed image's bottom edge, and line two lies below line one.
C10_CaptionGeometry ==
    fpc = "composed" =>
        /\ composed.width = image.width
        /\ composed.paste = <<0, 0>>
        /\ composed.pasted = image
        /\ composed.height = image.height + caption.padding_top + 2 * font_result
                             + caption.line_spacing + caption.padding_bottom
                             + qr_code.border * qr_code.module_size
        /\ (/\ caption.padding_top >= 0
            /\ caption.padding_bottom >= 0
            /\ caption.line_spacing >= 0
            /\ qr_code.border >= 0) =>
              /\ composed.y_line_one > image.height
              /\ composed.y_line_two > image.height
              /\ composed.y_line_one <= composed.height
              /\ composed.y_line_two <= composed.height
              /\ composed.y_line_two > composed.y_line_one

\* A caption composed with no padding at all below a bordered QR image.
C10_Witness ==
    /\ fpc = "composed"
    /\ caption.padding_top = 0
    /\ caption.padding_bottom = 0
    /\ caption.line_spacing = 0
    /\ qr_code.border = 1
    /\ font_result = 2

(***************************************************************************)
(* Claims about the generate commands.                                     *)
(***************************************************************************)

\* C2: in each generate command the payload encoded into the saved image is
\* the payload of the last preview, the one the user accepted with Generate.
C2_SavedPayloadIsPreviewed ==
    cpc = "saved" => out_image = preview

\* The value the registry reports for a setting: its empty value when
\* nothing was ever stored.
ReportedValue(path) ==
    IF settings[path] = NONE
    THEN (IF path = "filament-temp" THEN "0" ELSE "")
    ELSE settings[path]

\* The non-empty values of a text, in order.
RECURSIVE NonEmptyValues(_)
NonEmptyValues(lines) ==
    IF lines = << >> THEN << >>
    ELSE (IF Head(lines).value \in {"", "0"} THEN << >> ELSE <<Head(lines).value>>)
         \o NonEmptyValues(Tail(lines))

\* C3: once generate_and_save_qr_code has completed, the TOML record next
\* to the image and the history file hold the same text, and that text
\* lists every setting of the registry, in order, with the value that was
\* encoded into the saved QR code and no unit.
C3_RecordAndHistoryAreTheDump ==
    cpc = "saved" =>
        /\ out_record = history
        /\ out_record.encoding = "toml"
        /\ Len(out_record.lines) = Len(Registry)
        /\ \A i \in 1 .. Len(Registry) :
              LET line == out_record.lines[i]
              IN  /\ BuildFullyQualifiedPath(line.category, line.name) = Registry[i]
                  /\ line.value = ReportedValue(Registry[i])
                  /\ line.unit = ""
        /\ NonEmptyValues(out_image.lines) = NonEmptyValues(out_record.lines)

\* A saved run in which one setting was left empty and the others were not.
C3_Witness ==
    /\ cpc = "saved"
    /\ settings["filament-name"] = ""
    /\ settings["filament-temp"] = "210"
    /\ settings["misc-date"] = "today"
    /\ Len(out_image.lines) < Len(out_record.lines)

\* C6: with --ignore-defaults the payload previewed and the payload saved
\* are those of the run whose pqr.toml has an empty print-settings section:
\* the print-settings section of the user config has no effect on them.
C6_IgnoreDefaultsIgnoresUserSettings ==
    (cpc \in {"preview", "saved"} /\ flags.ignore_defaults) =>
        /\ preview = PreviewOf(shadow)
        /\ cpc = "saved" => out_image = SavedPayload(cmd, shadow, args)

\* C7: in the args, template and revise commands the date is stamped before
\* the first preview exactly when the effective add-date option (the flag
\* when given, else options.add_date of the config) is true.
C7_DateStampedWhenEffective ==
    (cmd \in {"args", "template", "revise"} /\ cpc = "preview" /\ revisions = 0) =>
        /\ stamped <=> args.add_date
        /\ args.add_date => settings["misc-date"] = "today"

\* The registry as process_shared_args leaves it: empty, or holding the
\* print-settings section of the user config.
SettingsAfterSharedArgs ==
    [path \in Paths |->
        IF ~flags.ignore_defaults /\ path \in DOMAIN user_config.print_settings
        THEN user_config.print_settings[path]
        ELSE NONE]

\* C8: in the template command, a template file that cannot be read (it is
\* missing, malformed, or has an unsupported suffix) ends the program with
\* a ConfigReadError reported for the file's path and exit code -1; no
\* setting is updated from the template, and no image, TOML record or
\* history file is written.
C8_UnreadableTemplateExits ==
    (cmd = "template" /\ input.status # "ok" /\ cpc \notin {"start", "args_done"}) =>
        /\ cpc = "exited"
        /\ exit_code = 0 - 1
        /\ error.source \in {"FileNotFoundError", "DecodeError", "ValueError"}
        /\ error.path = "template"
        /\ settings = SettingsAfterSharedArgs
        /\ preview = NoText
        /\ out_image = NoText
        /\ out_record = NoText
        /\ history \in {NoText, OldHistory}

\* A template with an unsupported suffix, given while the user config holds
\* default print settings.
C8_Witness ==
    /\ cmd = "template"
    /\ input.status = "bad_suffix"
    /\ cpc = "exited"
    /\ ~flags.ignore_defaults
    /\ settings["filament-temp"] = "200"

\* C11: parsing the text PrintSettings.dump() returns and passing it to
\* PrintSettings.update() leaves every setting, the date included, with the
\* value it had when dump() was called, on the registry itself and on a
\* registry freshly loaded with the user config; and the revise command,
\* when it does not stamp a new date, starts with exactly the values of the
\* history file, none of them taken from the user config.
C11_DumpUpdateRoundTrip ==
    /\ cpc \in {"preview", "saved"} =>
          LET data == ParseToml(Dump(settings))
              same == PrintSettingsUpdate(settings, data)
              fresh == PrintSettingsUpdate(
                           PrintSettingsUpdate(LoadedSettings, user_config.print_settings), data)
          IN  /\ DOMAIN data = Paths
              /\ \A path \in Paths :
                    /\ SettingValue(path, same[path]) = SettingValue(path, settings[path])
                    /\ SettingValue(path, fresh[path]) = SettingValue(path, settings[path])
    /\ (cmd = "revise" /\ cpc = "preview" /\ revisions = 0 /\ ~stamped) =>
          /\ Len(history.lines) = Len(Registry)
          /\ \A i \in 1 .. Len(Registry) :
                SettingValue(Registry[i], settings[Registry[i]]) = history.lines[i].value

\* The revise command restored a cleared temperature over the temperature
\* the user config gives by default.
C11_Witness ==
    /\ cmd = "revise"
    /\ cpc = "preview"
    /\ revisions = 0
    /\ ~stamped
    /\ ~flags.ignore_defaults
    /\ "filament-temp" \in DOMAIN user_config.print_settings
    /\ history = OldHistoryCleared
    /\ settings["filament-temp"] = "0"
    /\ settings["filament-name"] = "ABS"

\* The line of a text that encodes the temperature, the one setting of the
\* registry that has a unit: "temp" in TOML, "ft" in the compact format.
IsTemperatureLine(line) == line.category = "filament" /\ line.name \in {"temp", "ft"}

\* C13: with with_units true, in both encodings, the payload is the payload
\* of with_units false line for line, except that every non-empty setting
\* that has a unit (the temperature) is written as its value immediately
\* followed by the unit text; a setting without a unit is written exactly
\* as with with_units false, and a non-empty temperature is never left out.
C13_UnitsAppendedToUnitSettingsOnly ==
    (cpc \in {"preview", "saved"} /\ args.with_units) =>
        LET plain == ToEncodedStr(settings, EncArg(args.encoding), BoolArg(FALSE))
        IN  /\ preview.encoding = plain.encoding
            /\ Len(preview.lines) = Len(plain.lines)
            /\ \A i \in 1 .. Len(plain.lines) :
                  LET with == preview.lines[i]
                      without == plain.lines[i]
                  IN  /\ with.category = without.category
                      /\ with.name = without.name
                      /\ with.value = without.value
                      /\ without.unit = ""
                      /\ with.unit = (IF IsTemperatureLine(without) THEN "C" ELSE "")
                      /\ IsTemperatureLine(without) => with.value = settings["filament-temp"]
            /\ settings["filament-temp"] \notin {NONE, "0"} =>
                  \E i \in 1 .. Len(preview.lines) : IsTemperatureLine(preview.lines[i])

\* A compact payload with units: a temperature with its unit after a
\* category placeholder and before a date without one.
C13_Witness ==
    /\ cpc = "preview"
    /\ args.with_units
    /\ args.encoding = "compact"
    /\ settings["filament-name"] = ""
    /\ settings["filament-temp"] = "210"
    /\ settings["misc-date"] = "today"
    /\ Len(preview.lines) = 3
    /\ preview.lines[2].unit = "C"
    /\ preview.lines[3].unit = ""

\* The Enter key at every prompt: every default accepted.
AllEnter == [path \in Paths |-> "ENTER"]

\* A Revise pass (reply R) on which the user accepts every default.
RevisePassAcceptingDefaults ==
    /\ cpc = "preview"
    /\ revisions' = revisions + 1
    /\ settings' = PromptPrintSettings(settings, args.ignore_defaults, args.add_date, AllEnter)

\* C15: on every revising pass each prompt is auto-filled with the value
\* the setting had after the previous pass, so a pass on which every default
\* is accepted leaves the value of every setting as it was, with or without
\* --ignore-defaults.
C15_AcceptingDefaultsChangesNothing ==
    [][RevisePassAcceptingDefaults =>
          \A path \in Paths :
              SettingValue(path, settings'[path]) = SettingValue(path, settings[path])]_vars

\* The image, the TOML record, the history file and the current directory
\* (the default output directory) are as they were.
NothingWritten ==
    /\ out_image' = out_image
    /\ out_record' = out_record
    /\ history' = history
    /\ files'["cwd"] = files["cwd"]

\* C16: in every generate command no image, TOML record or history file is
\* written before the user answers Generate: every step other than the one
\* that saves (the command's start, the first preview, a Revise pass, an
\* Abort, an exit on a read error) leaves all three and the current
\* directory as they were, while the command has not saved there is no
\* image and no record, and an Abort ends the program with exit code -1.
C16_NothingWrittenBeforeGenerate ==
    /\ [](cpc # "saved" => (out_image = NoText /\ out_record = NoText))
    /\ [](cpc = "exited" => exit_code = 0 - 1)
    /\ [][cpc' # "saved" => NothingWritten]_vars
    /\ [][(cpc = "preview" /\ cpc' = "exited") => (exit_code' = 0 - 1 /\ NothingWritten)]_vars

\* An Abort after a Revise pass that changed the settings: nothing was
\* written and the history file is the one of the previous run.
C16_Witness ==
    /\ cpc = "exited"
    /\ error = NoError
    /\ exit_code = 0 - 1
    /\ revisions = 1
    /\ settings["filament-name"] = "ABS"
    /\ preview # NoText
    /\ history = OldHistory
    /\ out_image = NoText
    /\ out_record = NoText
    /\ files["user"].exists
    /\ ~files["cwd"].exists

(***************************************************************************)
(* Claims about 'init template'.                                           *)
(***************************************************************************)

\* The empty value of each setting of the registry, by its type.
BlankValue(path) ==
    CASE path = "filament-name" -> ""
      [] path = "filament-temp" -> "0"
      [] path = "misc-date" -> ""

\* C12: 'init template' leaves an existing print-settings.toml unchanged
\* when --force is not given; otherwise the file it writes lists every
\* setting of the registry once, the settings of a category next to each
\* other, each with the empty value of its type and no unit, whatever
\* values the loaded config defaults had given the settings.
C12_InitTemplateIsBlank ==
    cpc = "done" =>
        LET file == files["template"]
        IN  IF init_last.existed /\ ~init_last.force
            THEN file.exists /\ file.content = init_last.before
            ELSE /\ file.exists
                 /\ Len(file.content) = Len(Registry)
                 /\ \A i \in 1 .. Len(Registry) :
                       LET line == file.content[i]
                       IN  /\ BuildFullyQualifiedPath(line.category, line.name) = Registry[i]
                           /\ line.value = BlankValue(Registry[i])
                           /\ line.unit = ""
                 /\ \A i, j, k \in 1 .. Len(Registry) :
                       (i < j /\ j < k /\ file.content[i].category = file.content[k].category)
                           => file.content[j].category = file.content[i].category

\* A filled-in template overwritten with --force while the loaded defaults
\* had given the settings values.
C12_Witness ==
    /\ cpc = "done"
    /\ init_last.existed
    /\ init_last.force
    /\ init_last.before = OldHistory.lines
    /\ init_last.loaded["filament-temp"] = "200"
    /\ files["template"].content # init_last.before

\* An empty template kept without --force.
C12_WitnessKept ==
    /\ cpc = "done"
    /\ init_last.existed
    /\ ~init_last.force
    /\ files["template"].content = << >>

=============================================================================
